---- MODULE Spec2Model ----
(***************************************************************************)
(* Model of the RunPod pod launcher (start_a100_pod.py): the PodManager    *)
(* workflow create_pod -> wait_for_pod_running -> get_ssh_details ->       *)
(* add_to_known_hosts -> update_ssh_config -> test_ssh_connection ->       *)
(* launch_vscode -> print_summary, with the remote API, the subprocesses   *)
(* and the file system as nondeterministic environment inputs; and of the  *)
(* two inventory scripts (list_network_volumes.py, list_ssh_keys.py).      *)
(* Spec is one run of main(); SpecClient, SpecProvision, SpecRegistrar and *)
(* SpecInventory call one unit again and again on every input.             *)
(***************************************************************************)
EXTENDS Integers, Sequences, FiniteSets, TLC

(***************************************************************************)
(* Bounds of the model.                                                    *)
(***************************************************************************)
\* largest non-default max_attempts passed to wait_for_pod_running
MaxAttemptsArg == 3
\* most calls of the unit in a specification that checks a unit alone
MaxCalls == 2

(***************************************************************************)
(* Program constants.                                                      *)
(***************************************************************************)
\* def wait_for_pod_running(self, pod_id, max_attempts: int = 60)
DefaultMaxAttempts == 60
\* max_attempts = 40 in get_ssh_details
SshMaxAttempts == 40
\* port.get("privatePort") == 22, and the default of get("publicPort", 22)
SshPrivatePort == 22

(***************************************************************************)
(* JSON values as Python sees them.  Absent is a key that is not in the    *)
(* dict, Null is JSON null (None).                                         *)
(***************************************************************************)
Absent == [t |-> "absent"]
Null == [t |-> "null"]
Num(n) == [t |-> "int", v |-> n]
Txt(s) == [t |-> "str", v |-> s]
List(s) == [t |-> "list", v |-> s]

\* a runtime sub-record; every key may be absent
Runtime(u, p) == [t |-> "obj", uptimeInSeconds |-> u, ports |-> p]
\* a port mapping
Port(priv, pub, ip) == [t |-> "obj", privatePort |-> priv, publicPort |-> pub, ip |-> ip]
\* a pod record of the status query
Pod(rt) == [t |-> "obj", runtime |-> rt]

\* dict.get(key): None when the key is absent
DictGet(v) == IF v.t = "absent" THEN Null ELSE v
\* dict.get(key, default)
DictGetDefault(v, d) == IF v.t = "absent" THEN d ELSE v

\* Python truth value of a JSON value
Truthy(v) ==
  CASE v.t = "absent" -> FALSE
    [] v.t = "null" -> FALSE
    [] v.t = "int" -> v.v # 0
    [] v.t = "str" -> v.v # ""
    [] v.t = "list" -> Len(v.v) > 0
    [] v.t = "obj" -> \E k \in (DOMAIN v) \ {"t"} : v[k].t # "absent"

\* str(v)
PyStr(v) ==
  CASE v.t = "null" -> "None"
    [] v.t = "int" -> ToString(v.v)
    [] v.t = "str" -> v.v

(***************************************************************************)
(* Environment inputs.                                                     *)
(***************************************************************************)
PodIds == {"abc123", "xyz789"}
Hosts == {"1.2.3.4", "5.6.7.8"}
\* port strings as get_ssh_details returns them
PortStrings == {"40222", "22", "None"}

\* the port mappings a poll response may carry
SshEntries ==
  {Port(Num(SshPrivatePort), Num(40222), Txt("1.2.3.4")),
   Port(Num(SshPrivatePort), Num(40333), Txt("5.6.7.8"))}
HttpEntry == Port(Num(8888), Num(40888), Txt("5.6.7.8"))
NoHostEntry == Port(Num(SshPrivatePort), Num(40222), Null)
PortEntries ==
  SshEntries
  \cup {HttpEntry, NoHostEntry,
        Port(Num(SshPrivatePort), Num(40222), Txt("")),
        Port(Num(SshPrivatePort), Absent, Txt("1.2.3.4")),
        Port(Num(SshPrivatePort), Null, Txt("1.2.3.4")),
        Port(Absent, Num(40222), Txt("1.2.3.4"))}

\* the runtime.ports lists a poll response may carry: empty, one mapping,
\* or two mappings (ssh after http, ssh after an ssh mapping without host,
\* two ssh mappings, http after ssh)
PortLists ==
  {<<>>}
  \cup {<<e>> : e \in PortEntries}
  \cup {<<e1, e2>> : e1 \in SshEntries \cup {HttpEntry, NoHostEntry},
                     e2 \in SshEntries \cup {HttpEntry}}

Runtimes ==
  {Absent, Null, Runtime(Absent, Absent), Runtime(Num(5), Absent), Runtime(Num(5), Null)}
  \cup {Runtime(Num(5), List(p)) : p \in PortLists}

\* the value of data.pod in a status response
PodValues == {Absent, Null} \cup {Pod(rt) : rt \in Runtimes}

\* an HTTP exchange: status code, the "errors" field of the body (Absent
\* when the body has none) and the body's "data" field
Http(status, errors, data) == [status |-> status, errors |-> errors, data |-> data]

\* an "errors" field as the API sends it
ErrorList == List(<<"Something went wrong. Please try again later.">>)

StatusResponses ==
  {Http(500, Absent, Absent), Http(200, ErrorList, Null), Http(200, Absent, Absent),
   Http(200, Absent, Null),
   \* errors next to a result
   Http(200, ErrorList, [t |-> "obj", pod |-> Pod(Runtime(Num(5), Absent))])}
  \cup {Http(200, Absent, [t |-> "obj", pod |-> p]) : p \in PodValues}

\* the value of data.podFindAndDeployOnDemand in a create response
Deployed(id, cost) == [t |-> "obj", id |-> id, costPerHr |-> cost]
DeployValues ==
  {Absent, Null}
  \cup {Deployed(id, c) : id \in {Txt(p) : p \in PodIds}, c \in {Absent, Null, Num(89)}}
  \cup {Deployed(Absent, Num(89))}

CreateResponses ==
  {Http(500, Absent, Absent), Http(200, ErrorList, Null), Http(200, Absent, Absent),
   Http(200, Absent, Null),
   \* errors next to a result
   Http(200, ErrorList,
        [t |-> "obj", podFindAndDeployOnDemand |-> Deployed(Txt("abc123"), Num(89))])}
  \cup {Http(200, Absent, [t |-> "obj", podFindAndDeployOnDemand |-> d]) : d \in DeployValues}

(***************************************************************************)
(* Results of calls: a returned value or a raised exception.               *)
(***************************************************************************)
Ret(v) == [kind |-> "ret", val |-> v]
Raise == [kind |-> "raise", val |-> Null]
\* no call made yet
NoCall == [kind |-> "none", val |-> Null]

\* raise Exception(f"<what> ...<payload>")
RaiseOf(what, payload) == [kind |-> "raise", val |-> [what |-> what, payload |-> payload]]

\* graphql_request that hands the body to its caller whatever is in it
graphql_request_unchecked(h) ==
  IF h.status # 200 THEN RaiseOf("HTTP", h)
  ELSE Ret(h)

\* graphql_request: raises on a status other than 200 and on an "errors"
\* field in the body, otherwise returns the decoded body
graphql_request(h) ==
  \* the message holds the status code and response.text, the whole body
  IF h.status # 200 THEN RaiseOf("HTTP", h)
  ELSE IF h.errors.t # "absent" THEN RaiseOf("GraphQL errors", h.errors)
  ELSE Ret(h)

\* get_pod_info: the pod record of the response, or an exception
get_pod_info(h) ==
  LET result == graphql_request(h)
  IN IF result.kind = "raise" THEN Raise
     ELSE IF result.val.data.t = "absent" THEN Raise
     \* "pod" in None raises TypeError
     ELSE IF result.val.data.t = "null" THEN Raise
     ELSE IF result.val.data.pod.t = "absent" THEN Raise
     ELSE Ret(result.val.data.pod)

(***************************************************************************)
(* create_pod on a create response: the pod id returned, or a failure;     *)
(* shown is TRUE when "Pod ID: ..." was printed before the outcome.        *)
(***************************************************************************)
Created(id) == [ok |-> TRUE, id |-> id, shown |-> TRUE]
CreateFailed(id, shown) == [ok |-> FALSE, id |-> id, shown |-> shown]

\* create_pod without the check of the hourly cost
create_pod_no_cost_check(h) ==
  LET result == graphql_request(h)
  IN IF result.kind = "raise" THEN CreateFailed("", FALSE)
     ELSE IF result.val.data.t = "absent" THEN CreateFailed("", FALSE)
     ELSE IF result.val.data.t = "null" THEN CreateFailed("", FALSE)
     ELSE LET pod_data == result.val.data.podFindAndDeployOnDemand
          IN IF pod_data.t = "absent" THEN CreateFailed("", FALSE)
             ELSE IF pod_data.t = "null" THEN CreateFailed("", FALSE)
             ELSE IF pod_data.id.t = "absent" THEN CreateFailed("", FALSE)
             ELSE Created(PyStr(pod_data.id))

\* create_pod with the check of the hourly cost before the print of the id
create_pod_cost_check_first(h) ==
  LET r == create_pod_no_cost_check(h)
  IN IF r.ok /\ DictGet(graphql_request(h).val.data.podFindAndDeployOnDemand.costPerHr).t = "null"
     THEN CreateFailed(r.id, FALSE)
     ELSE r

create_pod(h) ==
  LET result == graphql_request(h)
  IN IF result.kind = "raise" THEN CreateFailed("", FALSE)
     \* "data" not in result: raise Exception("Unexpected response")
     ELSE IF result.val.data.t = "absent" THEN CreateFailed("", FALSE)
     \* "podFindAndDeployOnDemand" in None: TypeError
     ELSE IF result.val.data.t = "null" THEN CreateFailed("", FALSE)
     ELSE LET pod_data == result.val.data.podFindAndDeployOnDemand
          IN IF pod_data.t = "absent" THEN CreateFailed("", FALSE)
             \* None["id"]: TypeError
             ELSE IF pod_data.t = "null" THEN CreateFailed("", FALSE)
             \* pod_data["id"]: KeyError
             ELSE IF pod_data.id.t = "absent" THEN CreateFailed("", FALSE)
             ELSE IF DictGet(pod_data.costPerHr).t = "null"
                  THEN CreateFailed(PyStr(pod_data.id), TRUE)
             ELSE Created(PyStr(pod_data.id))

(***************************************************************************)
(* The two polling predicates, on the result of get_pod_info.              *)
(***************************************************************************)
Ready(host, port) == [res |-> "ready", host |-> host, port |-> port]
NotReady == [res |-> "wait", host |-> "", port |-> ""]
Failed == [res |-> "error", host |-> "", port |-> ""]

\* the check written as: pod_info.get("runtime") is not None
wait_check_not_none(r) ==
  IF r.kind = "raise" THEN Failed
  ELSE IF r.val.t = "null" THEN Failed
  ELSE IF DictGet(r.val.runtime).t # "null" THEN Ready("", "")
  ELSE NotReady

\* the body of the try block of wait_for_pod_running
wait_check(r) ==
  IF r.kind = "raise" THEN Failed
  \* None.get: AttributeError
  ELSE IF r.val.t = "null" THEN Failed
  ELSE IF Truthy(DictGet(r.val.runtime)) THEN Ready("", "")
  ELSE NotReady

\* the loop without its break: the last mapping with private port 22
find_last_ssh_port(ports) ==
  LET hits == {i \in 1..Len(ports) : DictGet(ports[i].privatePort) = Num(SshPrivatePort)}
  IN IF hits = {} THEN Null
     ELSE ports[CHOOSE i \in hits : \A j \in hits : i >= j]

\* the first port mapping with privatePort == 22, or None
find_ssh_port(ports) ==
  LET hits == {i \in 1..Len(ports) : DictGet(ports[i].privatePort) = Num(SshPrivatePort)}
  IN IF hits = {} THEN Null
     ELSE ports[CHOOSE i \in hits : \A j \in hits : i <= j]

\* get_ssh_details reading the port from the wrong key of the mapping
ssh_check_private_port(r) ==
  IF r.kind = "raise" THEN Failed
  ELSE IF r.val.t = "null" THEN Failed
  ELSE IF ~Truthy(DictGet(r.val.runtime)) THEN NotReady
  ELSE IF ~Truthy(DictGet(r.val.runtime.ports)) THEN NotReady
  ELSE LET ssh_port_info == find_ssh_port(r.val.runtime.ports.v)
       IN IF ~Truthy(ssh_port_info) THEN NotReady
          ELSE LET host == DictGet(ssh_port_info.ip)
                   port == PyStr(DictGetDefault(ssh_port_info.privatePort, Num(SshPrivatePort)))
               IN IF Truthy(host) /\ port # "" THEN Ready(PyStr(host), port)
                  ELSE NotReady

\* the body of the try block of get_ssh_details
ssh_check(r) ==
  IF r.kind = "raise" THEN Failed
  ELSE IF r.val.t = "null" THEN Failed
  ELSE IF ~Truthy(DictGet(r.val.runtime)) THEN NotReady
  ELSE IF ~Truthy(DictGet(r.val.runtime.ports)) THEN NotReady
  ELSE LET ssh_port_info == find_ssh_port(r.val.runtime.ports.v)
       IN IF ~Truthy(ssh_port_info) THEN NotReady
          ELSE LET host == DictGet(ssh_port_info.ip)
                   port == PyStr(DictGetDefault(ssh_port_info.publicPort, Num(SshPrivatePort)))
               IN IF Truthy(host) /\ port # "" THEN Ready(PyStr(host), port)
                  ELSE NotReady

\* the loop written as range(1, max_attempts): one attempt short
InRangeShort(a, max) == a < max

\* the loop written as range(0, max_attempts + 1): one attempt more
InRangeLong(a, max) == a <= max + 1

\* for attempt in range(1, max_attempts + 1): is there another attempt
InRange(a, max) == a <= max

(***************************************************************************)
(* Local files as text: a sequence of fragments, "\n" ending a line.       *)
(***************************************************************************)
\* self.pod_name, self.ssh_key_path
PodName == "a100-pcie-pod"
SshKeyPath == "~/.ssh/id_rsa"

\* the alias made of the pod's name instead of its id
ssh_alias_of_name(pod) == <<"runpod-", PodName>>

\* ssh_host_alias = f"runpod-{pod_id}"
ssh_alias(pod) == <<"runpod-", pod>>

\* the config_entry f-string of update_ssh_config
config_entry(pod, host, port) ==
  <<"\n", "# RunPod Pod: ", PodName, "\n">>
  \o <<"Host ">> \o ssh_alias(pod) \o <<"\n">>
  \o <<"    HostName ", host, "\n">>
  \o <<"    Port ", port, "\n">>
  \o <<"    User root", "\n">>
  \o <<"    IdentityFile ", SshKeyPath, "\n">>
  \o <<"    StrictHostKeyChecking no", "\n">>

\* the file opened with mode 'w': the text replaces the content
overwrite_file(content, text) == text

\* open(path, 'a'); f.write(text)
append_to_file(content, text) == content \o text

\* what the SSH config holds before a run: nothing, or another host's
\* block, with or without a final newline
OtherBlock == <<"Host ", "github.com", "\n", "    User git">>
InitialConfigs == {<<>>, OtherBlock}
InitialKnownHosts == {<<>>, <<"github.com ssh-ed25519 AAAA\n">>}

\* what ssh-keyscan may do: raise (not installed, timeout), or exit with a
\* return code and some output
Scan(rc, stdout) == [kind |-> "ret", returncode |-> rc, stdout |-> stdout]
ScanRaised == [kind |-> "raise", returncode |-> 0, stdout |-> ""]
NoScan == [kind |-> "none", returncode |-> 0, stdout |-> ""]
KeyLine == "[host]:port ssh-rsa AAAA\n"
ScanResults ==
  {ScanRaised} \cup {Scan(rc, o) : rc \in {0, 1}, o \in {"", KeyLine}}

\* the if without the test of the return code
scan_ok_any_returncode(result) == result.stdout # ""

\* the if of add_to_known_hosts
scan_ok(result) == result.returncode = 0 /\ result.stdout # ""

\* what the ssh test may do: raise (timeout), or exit with a return code
SshTestResults == {"raise", "rc0", "rc255"}

(***************************************************************************)
(* State.                                                                  *)
(***************************************************************************)
VARIABLES
  pc,            \* the step of main()/run() about to execute, or "exited"
  exit_code,     \* -1 while running, then the process exit code
  outcome,       \* why the process ended
  create_resp,   \* the response to the provisioning mutation
  pod_id,        \* run(): pod_id
  max_attempts,  \* wait_for_pod_running: max_attempts
  attempt,       \* the loop variable of the polling loop in progress
  pod_info,      \* the result of the last get_pod_info call of that loop
  ssh_host,      \* run(): ssh_host
  ssh_port,      \* run(): ssh_port
  ssh_host_alias,\* run(): ssh_host_alias
  ssh_config,    \* content of ~/.ssh/config
  known_hosts,   \* content of ~/.ssh/known_hosts
  scan,          \* the result of the last ssh-keyscan
  out,           \* what was printed
  steps,         \* the methods run() has called, in order
  fetches,       \* get_pod_info calls made by that loop
  creates,       \* provisioning mutations sent
  launches,      \* editor spawns attempted
  had_error,     \* whether a get_pod_info call of that loop raised
  scen,          \* the poll responses so far: "pre", "good" or "off"
  ssh_config0,   \* content of ~/.ssh/config when the process started
  known_hosts0,  \* content of ~/.ssh/known_hosts when the process started
  calls,         \* calls made of a unit checked on its own
  cmds,          \* API queries and commands issued, with their arguments
  unit_arg,      \* argument of the last call of a unit checked on its own
  unit_res,      \* what that call gave
  interrupted_at \* where the process was when the operator interrupted it

vars ==
  <<pc, exit_code, outcome, create_resp, pod_id, max_attempts, attempt, pod_info, ssh_host,
    ssh_port, ssh_host_alias, ssh_config, known_hosts, scan, out, steps,
    fetches, creates, launches, had_error, scen, ssh_config0, known_hosts0,
    calls, cmds, unit_arg, unit_res, interrupted_at>>

\* a printed message
Msg(m, args) == [msg |-> m, args |-> args]

\* get_pod_info(pod_id): the pod query, whose input is {"podId": pod_id}
pod_query(pod) == Msg("pod_query", <<pod>>)

\* ssh-keyscan -p <port> -H <host>
keyscan_cmd(host, port) == Msg("ssh-keyscan", <<"-p", port, "-H", host>>)

\* ssh ... -i <key> -p <port> root@<host> echo ...
ssh_cmd(host, port) == Msg("ssh", <<"-i", SshKeyPath, "-p", port, "root@", host>>)

\* code --remote ssh-remote+<alias> /workspace
code_cmd(alias) == Msg("code", <<"--remote", "ssh-remote+">> \o alias \o <<"/workspace">>)

InitAt(start) ==
  /\ pc = start
  /\ exit_code = -1
  /\ outcome = "running"
  /\ create_resp = Http(0, Absent, Absent)
  /\ pod_id = ""
  /\ max_attempts = 0
  /\ attempt = 0
  /\ pod_info = NoCall
  /\ ssh_host = ""
  /\ ssh_port = ""
  /\ ssh_host_alias = <<>>
  /\ ssh_config \in InitialConfigs
  /\ known_hosts \in InitialKnownHosts
  /\ scan = NoScan
  /\ out = {}
  /\ steps = <<>>
  /\ fetches = 0
  /\ creates = 0
  /\ launches = 0
  /\ had_error = FALSE
  /\ scen = [st |-> "pre", e |-> Null]
  /\ ssh_config0 = ssh_config
  /\ known_hosts0 = known_hosts
  /\ calls = 0
  /\ cmds = {}
  /\ unit_arg = Null
  /\ unit_res = NoCall
  /\ interrupted_at = "none"

\* the process starts: main() constructs the PodManager
Init == InitAt("construct")

\* sys.exit(code)
Exit(code, why) ==
  /\ pc' = "exited"
  /\ exit_code' = code
  /\ outcome' = why

\* PodManager.__init__: the API key file must exist
Construct ==
  /\ pc = "construct"
  /\ \E key_exists \in BOOLEAN :
       IF key_exists
       THEN /\ pc' = "create_pod"
            /\ UNCHANGED <<exit_code, outcome, out>>
       ELSE /\ Exit(1, "no_api_key")
            /\ out' = out \cup {Msg("no_api_key", <<>>)}
  /\ UNCHANGED <<create_resp, pod_id, max_attempts, attempt, pod_info, ssh_host, ssh_port,
                 ssh_host_alias, ssh_config, known_hosts, scan, steps, fetches,
                 creates, launches, had_error, scen, ssh_config0, known_hosts0,
                 calls, cmds, unit_arg, unit_res, interrupted_at>>

\* run(): pod_id = self.create_pod(); then wait_for_pod_running is entered
\* with the default bound (or another bound, as a caller may pass)
CreatePod ==
  /\ pc = "create_pod"
  /\ \E h \in CreateResponses :
       LET r == create_pod(h)
       IN /\ creates' = creates + 1
          /\ create_resp' = h
          /\ steps' = Append(steps, "create_pod")
          /\ IF r.ok
             THEN /\ pod_id' = r.id
                  /\ out' = out \cup {Msg("pod_id", <<r.id>>), Msg("cost", <<>>)}
                  /\ pc' = "wait_for_pod_running"
                  /\ max_attempts' \in (1..MaxAttemptsArg) \cup {DefaultMaxAttempts}
                  /\ attempt' = 1
                  /\ UNCHANGED <<exit_code, outcome>>
             ELSE /\ Exit(1, "create_failed")
                  /\ out' = out \cup {Msg("create_failed", <<>>)}
                              \cup (IF r.shown THEN {Msg("pod_id", <<r.id>>)} ELSE {})
                  /\ UNCHANGED <<pod_id, max_attempts, attempt>>
  /\ UNCHANGED <<pod_info, ssh_host, ssh_port, ssh_host_alias, ssh_config,
                 known_hosts, scan, fetches, launches, had_error, scen,
                 ssh_config0, known_hosts0, calls, cmds, unit_arg, unit_res, interrupted_at>>

\* the poll responses of the run so far, as the end-to-end scenario sees
\* them: "pre" while every poll returned a pod without runtime, "good" with
\* mapping e while after those every poll returned a runtime whose only port
\* mapping is the ssh mapping e, "off" otherwise
observe(s, r) ==
  LET no_runtime == /\ r.kind = "ret"
                    /\ r.val.t = "obj"
                    /\ r.val.runtime.t \in {"absent", "null"}
      one_port(e) == /\ r.kind = "ret"
                     /\ r.val.t = "obj"
                     /\ r.val.runtime.t = "obj"
                     /\ r.val.runtime.ports.t = "list"
                     /\ r.val.runtime.ports.v = <<e>>
  IN IF s.st = "pre" /\ no_runtime THEN s
     ELSE IF s.st = "pre" /\ \E e \in SshEntries : one_port(e)
       THEN [st |-> "good", e |-> CHOOSE e \in SshEntries : one_port(e)]
     ELSE IF s.st = "good" /\ one_port(s.e) THEN s
     ELSE [st |-> "off", e |-> Null]

\* the loop without its except clause: an exception leaves the method
loop_step_no_except(c) ==
  IF c.res = "ready" THEN "return"
  ELSE IF c.res = "error" THEN "propagate"
  ELSE "continue"

\* what the loop body of a polling loop does after its try block: return
\* from the method, or go on to the next attempt (after a not-ready response
\* and after an exception alike)
loop_step(c) ==
  IF c.res = "ready" THEN "return" ELSE "continue"

\* one attempt of the loop of wait_for_pod_running
WaitForPodRunning ==
  /\ pc = "wait_for_pod_running"
  /\ InRange(attempt, max_attempts)
  /\ \E h \in StatusResponses :
       LET r == get_pod_info(h)
           c == wait_check(r)
       IN /\ pod_info' = r
          /\ cmds' = cmds \cup {pod_query(pod_id)}
          /\ fetches' = fetches + 1
          /\ had_error' = (had_error \/ c.res = "error")
          /\ scen' = observe(scen, r)
          /\ CASE loop_step(c) = "return" ->
                    /\ pc' = "get_ssh_details"
                    /\ attempt' = 1
                    /\ max_attempts' = 0
                    /\ UNCHANGED <<exit_code, outcome>>
               [] loop_step(c) = "continue" ->
                    /\ attempt' = attempt + 1
                    /\ UNCHANGED <<pc, max_attempts, exit_code, outcome>>
               [] OTHER ->
                    /\ Exit(1, "error")
                    /\ UNCHANGED <<attempt, max_attempts>>
  /\ steps' = IF attempt = 1 THEN Append(steps, "wait_for_pod_running") ELSE steps
  /\ UNCHANGED <<create_resp, pod_id, ssh_host, ssh_port, ssh_host_alias,
                 ssh_config, known_hosts, scan, out, creates, launches,
                 ssh_config0, known_hosts0, calls, unit_arg, unit_res, interrupted_at>>

\* the timeout of wait_for_pod_running without its sys.exit(1): the method
\* returns and run() goes on
WaitTimeoutNoExit ==
  /\ pc = "wait_for_pod_running"
  /\ ~InRange(attempt, max_attempts)
  /\ pc' = "get_ssh_details"
  /\ attempt' = 1
  /\ max_attempts' = 0
  /\ out' = out \cup {Msg("timeout_start", <<>>)}
  /\ UNCHANGED <<exit_code, outcome, create_resp, pod_id, pod_info, ssh_host,
                 ssh_port, ssh_host_alias, ssh_config, known_hosts, scan, steps,
                 fetches, creates, launches, had_error, scen, ssh_config0,
                 known_hosts0, calls, cmds, unit_arg, unit_res, interrupted_at>>

\* the loop of wait_for_pod_running ran out of attempts
WaitTimeout ==
  /\ pc = "wait_for_pod_running"
  /\ ~InRange(attempt, max_attempts)
  /\ Exit(1, "timeout_start")
  /\ out' = out \cup {Msg("timeout_start", <<>>)}
  /\ UNCHANGED <<create_resp, pod_id, max_attempts, attempt, pod_info, ssh_host, ssh_port,
                 ssh_host_alias, ssh_config, known_hosts, scan, steps, fetches,
                 creates, launches, had_error, scen, ssh_config0, known_hosts0,
                 calls, cmds, unit_arg, unit_res, interrupted_at>>

\* one attempt of the loop of get_ssh_details
GetSshDetails ==
  /\ pc = "get_ssh_details"
  /\ InRange(attempt, SshMaxAttempts)
  /\ \E h \in StatusResponses :
       LET r == get_pod_info(h)
           c == ssh_check(r)
       IN /\ pod_info' = r
          /\ cmds' = cmds \cup {pod_query(pod_id)}
          \* the first attempt starts the loop: the counts are of this loop
          /\ fetches' = (IF attempt = 1 THEN 0 ELSE fetches) + 1
          /\ had_error' = ((attempt > 1 /\ had_error) \/ c.res = "error")
          /\ scen' = observe(scen, r)
          /\ CASE loop_step(c) = "return" ->
                    /\ pc' = "add_to_known_hosts"
                    /\ ssh_host' = c.host
                    /\ ssh_port' = c.port
                    /\ UNCHANGED <<attempt, exit_code, outcome>>
               [] loop_step(c) = "continue" ->
                    /\ attempt' = attempt + 1
                    /\ UNCHANGED <<pc, ssh_host, ssh_port, exit_code, outcome>>
               [] OTHER ->
                    /\ Exit(1, "error")
                    /\ UNCHANGED <<attempt, ssh_host, ssh_port>>
  /\ steps' = IF attempt = 1 THEN Append(steps, "get_ssh_details") ELSE steps
  /\ UNCHANGED <<create_resp, pod_id, max_attempts, ssh_host_alias, ssh_config, known_hosts,
                 scan, out, creates, launches, ssh_config0, known_hosts0, calls, unit_arg, unit_res, interrupted_at>>

\* the loop of get_ssh_details ran out of attempts
SshTimeout ==
  /\ pc = "get_ssh_details"
  /\ ~InRange(attempt, SshMaxAttempts)
  /\ Exit(1, "timeout_ssh")
  /\ out' = out \cup {Msg("timeout_ssh", <<>>)}
  /\ UNCHANGED <<create_resp, pod_id, max_attempts, attempt, pod_info, ssh_host, ssh_port,
                 ssh_host_alias, ssh_config, known_hosts, scan, steps, fetches,
                 creates, launches, had_error, scen, ssh_config0, known_hosts0,
                 calls, cmds, unit_arg, unit_res, interrupted_at>>

\* add_to_known_hosts: mkdir, ssh-keyscan, append its output
AddToKnownHosts ==
  /\ pc = "add_to_known_hosts"
  /\ steps' = Append(steps, "add_to_known_hosts")
  \* no polling loop is in progress any more
  /\ attempt' = 0
  /\ pod_info' = NoCall
  /\ fetches' = 0
  /\ had_error' = FALSE
  /\ \E mkdir_ok \in BOOLEAN, result \in ScanResults, write_ok \in BOOLEAN :
       IF ~mkdir_ok
       \* mkdir is outside the try: the exception reaches run()
       THEN /\ Exit(1, "error")
            /\ out' = out \cup {Msg("error", <<>>)}
            /\ UNCHANGED <<known_hosts, scan, cmds>>
       ELSE /\ scan' = result
            /\ cmds' = cmds \cup {keyscan_cmd(ssh_host, ssh_port)}
            /\ pc' = "update_ssh_config"
            /\ UNCHANGED <<exit_code, outcome>>
            /\ IF result.kind = "ret" /\ scan_ok(result)
               THEN IF write_ok
                    THEN /\ known_hosts' = append_to_file(known_hosts, <<result.stdout>>)
                         /\ out' = out \cup {Msg("known_hosts_added", <<>>)}
                    ELSE /\ out' = out \cup {Msg("known_hosts_skipped", <<>>)}
                         /\ UNCHANGED known_hosts
               ELSE /\ out' = out \cup {Msg("known_hosts_skipped", <<>>)}
                    /\ UNCHANGED known_hosts
  /\ UNCHANGED <<create_resp, pod_id, max_attempts, ssh_host, ssh_port, ssh_host_alias,
                 ssh_config, creates, launches, scen, ssh_config0, known_hosts0,
                 calls, unit_arg, unit_res, interrupted_at>>

\* update_ssh_config: the file content after the call
update_ssh_config(content, pod, host, port) ==
  append_to_file(content, config_entry(pod, host, port))

\* run(): ssh_host_alias = self.update_ssh_config(pod_id, ssh_host, ssh_port)
UpdateSshConfig ==
  /\ pc = "update_ssh_config"
  /\ steps' = Append(steps, "update_ssh_config")
  /\ \E io_ok \in BOOLEAN :
       IF io_ok
       THEN /\ ssh_config' = update_ssh_config(ssh_config, pod_id, ssh_host, ssh_port)
            /\ ssh_host_alias' = ssh_alias(pod_id)
            /\ pc' = "test_ssh_connection"
            /\ UNCHANGED <<exit_code, outcome, out>>
       \* mkdir or open failed: the exception reaches run()
       ELSE /\ Exit(1, "error")
            /\ out' = out \cup {Msg("error", <<>>)}
            /\ UNCHANGED <<ssh_config, ssh_host_alias>>
  /\ UNCHANGED <<create_resp, pod_id, max_attempts, attempt, pod_info, ssh_host, ssh_port,
                 known_hosts, scan, fetches, creates, launches, had_error, scen,
                 ssh_config0, known_hosts0, calls, cmds, unit_arg, unit_res, interrupted_at>>

\* test_ssh_connection without its except clause
test_ssh_connection_no_except(result) ==
  IF result = "raise" THEN Raise
  ELSE IF result = "rc0" THEN Ret(TRUE) ELSE Ret(FALSE)

\* test_ssh_connection: True on return code 0; a non-zero return code and
\* an exception of subprocess.run are logged and give False
test_ssh_connection(result) ==
  IF result = "rc0" THEN Ret(TRUE) ELSE Ret(FALSE)

\* run(): self.test_ssh_connection(ssh_host, ssh_port)
TestSshConnection ==
  /\ pc = "test_ssh_connection"
  /\ steps' = Append(steps, "test_ssh_connection")
  /\ cmds' = cmds \cup {ssh_cmd(ssh_host, ssh_port)}
  /\ \E result \in SshTestResults :
       LET r == test_ssh_connection(result)
       IN IF r.kind = "ret"
          THEN /\ out' = out \cup {Msg(IF r.val THEN "ssh_test_passed"
                                       ELSE "ssh_test_failed", <<>>)}
               /\ pc' = "launch_vscode"
               /\ UNCHANGED <<exit_code, outcome>>
          ELSE /\ Exit(1, "error")
               /\ out' = out \cup {Msg("error", <<>>)}
  /\ UNCHANGED <<create_resp, pod_id, max_attempts, attempt, pod_info,
                 ssh_host, ssh_port, ssh_host_alias, ssh_config, known_hosts,
                 scan, fetches, creates, launches, had_error, scen, ssh_config0,
                 known_hosts0, calls, unit_arg, unit_res, interrupted_at>>

\* launch_vscode: Popen of the editor; a spawn failure is logged and the
\* method returns
launch_vscode(spawn_ok) ==
  IF spawn_ok THEN Ret(TRUE) ELSE Ret(FALSE)

\* run(): self.launch_vscode(ssh_host_alias)
LaunchVscode ==
  /\ pc = "launch_vscode"
  /\ steps' = Append(steps, "launch_vscode")
  /\ launches' = launches + 1
  /\ cmds' = cmds \cup {code_cmd(ssh_host_alias)}
  /\ \E spawn_ok \in BOOLEAN :
       LET r == launch_vscode(spawn_ok)
       IN IF r.kind = "ret"
          THEN /\ out' = out \cup {Msg(IF r.val THEN "vscode_launched"
                                       ELSE "vscode_failed", ssh_host_alias)}
               /\ pc' = "print_summary"
               /\ UNCHANGED <<exit_code, outcome>>
          ELSE /\ Exit(1, "error")
               /\ out' = out \cup {Msg("error", <<>>)}
  /\ UNCHANGED <<create_resp, pod_id, max_attempts, attempt, pod_info,
                 ssh_host, ssh_port, ssh_host_alias, ssh_config, known_hosts,
                 scan, fetches, creates, had_error, scen, ssh_config0,
                 known_hosts0, calls, unit_arg, unit_res, interrupted_at>>

\* the connection summary print_summary prints
summary(pod, alias, host, port) == Msg("summary", <<pod>> \o alias \o <<host, port>>)

\* print_summary, after which run() and main() return
PrintSummary ==
  /\ pc = "print_summary"
  /\ steps' = Append(steps, "print_summary")
  /\ out' = out \cup {summary(pod_id, ssh_host_alias, ssh_host, ssh_port)}
  /\ Exit(0, "success")
  /\ UNCHANGED <<create_resp, pod_id, max_attempts, attempt, pod_info, ssh_host, ssh_port,
                 ssh_host_alias, ssh_config, known_hosts, scan, fetches, creates,
                 launches, had_error, scen, ssh_config0, known_hosts0, calls, cmds, unit_arg, unit_res, interrupted_at>>

\* the positions inside the try block of run()
RunSteps ==
  {"create_pod", "wait_for_pod_running", "get_ssh_details", "add_to_known_hosts",
   "update_ssh_config", "test_ssh_connection", "launch_vscode", "print_summary"}

\* the steps whose body runs in a try block of its own with an
\* "except Exception" clause
LocalHandler ==
  {"create_pod", "wait_for_pod_running", "get_ssh_details", "add_to_known_hosts",
   "test_ssh_connection", "launch_vscode"}

\* a handler that catches every exception, KeyboardInterrupt included
except_BaseException(exc) == TRUE

\* whether "except Exception" catches exc: KeyboardInterrupt and SystemExit
\* do not derive from Exception
except_Exception(exc) == exc = "Exception"

\* the operator interrupts the process inside run(): the KeyboardInterrupt
\* passes the handler of the step it arrives in, if that does not catch it,
\* and reaches "except KeyboardInterrupt" of run()
Interrupt ==
  /\ pc \in RunSteps
  /\ interrupted_at' = pc
  /\ IF pc \in LocalHandler /\ except_Exception("KeyboardInterrupt")
     \* the step logs it as a failure of its own and goes on
     THEN /\ out' = out \cup {Msg("step_failed", <<pc>>)}
          /\ UNCHANGED <<pc, exit_code, outcome>>
     ELSE /\ Exit(1, "interrupted")
          /\ out' = out \cup {Msg("cancelled", <<>>)}
  /\ UNCHANGED <<create_resp, pod_id, max_attempts, attempt, pod_info, ssh_host, ssh_port,
                 ssh_host_alias, ssh_config, known_hosts, scan, steps, fetches,
                 creates, launches, had_error, scen, ssh_config0, known_hosts0,
                 calls, cmds, unit_arg, unit_res>>

\* exit status of a process ended by a KeyboardInterrupt nobody caught: 1
\* when the interpreter prints the traceback and exits, 130 when it ends
\* itself by SIGINT after printing it
UncaughtInterruptCodes == {1, 130}

\* main(): PodManager() is constructed before run() is entered, outside its
\* try: no handler catches an interrupt that arrives then
InterruptConstruct ==
  /\ pc = "construct"
  /\ interrupted_at' = pc
  /\ \E code \in UncaughtInterruptCodes : Exit(code, "uncaught_interrupt")
  /\ out' = out \cup {Msg("traceback", <<>>)}
  /\ UNCHANGED <<create_resp, pod_id, max_attempts, attempt, pod_info, ssh_host, ssh_port,
                 ssh_host_alias, ssh_config, known_hosts, scan, steps, fetches,
                 creates, launches, had_error, scen, ssh_config0, known_hosts0,
                 calls, cmds, unit_arg, unit_res>>

Next ==
  \/ Construct
  \/ InterruptConstruct
  \/ CreatePod
  \/ WaitForPodRunning
  \/ WaitTimeout
  \/ GetSshDetails
  \/ SshTimeout
  \/ AddToKnownHosts
  \/ UpdateSshConfig
  \/ TestSshConnection
  \/ LaunchVscode
  \/ PrintSummary
  \/ Interrupt

Spec == Init /\ [][Next]_vars

\* every call the process makes returns or raises (the HTTP request, the
\* sleeps, the subprocesses with their timeouts), so a process that can take
\* a step takes one
FairSpec == Spec /\ WF_vars(Next)

(***************************************************************************)
(* The API client alone: graphql_request called on every kind of response. *)
(***************************************************************************)
\* what the API may answer to a request of graphql_request
ClientStatuses == {200, 201, 404, 500}
ClientResponses ==
  {Http(st, e, d) :
     st \in ClientStatuses,
     e \in {Absent, Null, ErrorList},
     d \in {Absent, Null,
            [t |-> "obj", pod |-> Pod(Runtime(Num(5), Absent))],
            [t |-> "obj", podFindAndDeployOnDemand |-> Deployed(Txt("abc123"), Num(89))]}}

\* the requests.post calls of one graphql_request call: the call is made
\* once, outside any loop, and nothing is posted after it
posts_made(h) == 1

InitClient == InitAt("client")

GraphqlRequest ==
  /\ pc = "client"
  /\ calls < MaxCalls
  /\ calls' = calls + 1
  /\ \E h \in ClientResponses :
       /\ unit_arg' = h
       /\ unit_res' = [got |-> graphql_request(h), posts |-> posts_made(h)]
  /\ UNCHANGED <<pc, exit_code, outcome, create_resp, pod_id, max_attempts, attempt,
                 pod_info, ssh_host, ssh_port, ssh_host_alias, ssh_config,
                 known_hosts, scan, out, steps, fetches, creates, launches,
                 had_error, scen, ssh_config0, known_hosts0, cmds,
                 interrupted_at>>

NextClient == GraphqlRequest

SpecClient == InitClient /\ [][NextClient]_vars

(***************************************************************************)
(* The two inventory scripts: one request, then the display of its decoded *)
(* body.                                                                   *)
(***************************************************************************)
\* a decoded body: its "errors" field and its "data" field
Body(errors, data) == [errors |-> errors, data |-> data]
Myself(field) == [t |-> "obj", field |-> field]

\* network volumes as the API lists them
Volume(name) == [t |-> "obj", name |-> name]
VolumeLists ==
  {Absent, Null, List(<<>>), List(<<Volume("vol-a")>>),
   List(<<Volume("vol-a"), Volume("vol-b")>>)}
\* the registered public key
PubKeys == {Absent, Null, Txt(""), Txt("ssh-ed25519 AAAA user@host")}

\* the values of data.myself
MyselfValues(fields) == {Absent, Null} \cup {Myself(f) : f \in fields}
\* the decoded bodies for a script whose listing is in fields
Bodies(fields) ==
  {Body(e, d) :
     e \in {Absent, ErrorList},
     d \in {Absent, Null} \cup {[t |-> "obj", myself |-> m] : m \in MyselfValues(fields)}}

\* if "data" in data and "myself" in data["data"]: TRUE, FALSE, or "raise"
\* when data["data"] is None
has_myself(b) ==
  IF b.data.t = "absent" THEN Ret(FALSE)
  ELSE IF b.data.t = "null" THEN Raise
  ELSE Ret(b.data.myself.t # "absent")

\* list_network_volumes.py from response.json() on: what it prints, or the
\* exception that ends it
list_network_volumes(b) ==
  LET c == has_myself(b)
  IN IF c.kind = "raise" THEN Raise
     ELSE IF ~c.val THEN Ret("error_report")
     \* None["networkVolumes"]: TypeError
     ELSE IF b.data.myself.t = "null" THEN Raise
     \* KeyError
     ELSE IF b.data.myself.field.t = "absent" THEN Raise
     ELSE IF ~Truthy(b.data.myself.field) THEN Ret("empty")
     ELSE Ret("listing")

\* list_ssh_keys.py from response.json() on
list_ssh_keys(b) ==
  LET c == has_myself(b)
  IN IF c.kind = "raise" THEN Raise
     ELSE IF ~c.val THEN Ret("error_report")
     \* None.get: AttributeError
     ELSE IF b.data.myself.t = "null" THEN Raise
     ELSE IF ~Truthy(DictGet(b.data.myself.field)) THEN Ret("empty")
     ELSE Ret("listing")

InitInventory == InitAt("inventory")

\* one run of a script: the variables of the launcher stay as they are
RunScript(script, b, res) ==
  /\ pc = "inventory"
  /\ calls < MaxCalls
  /\ calls' = calls + 1
  /\ unit_arg' = [script |-> script, body |-> b]
  /\ unit_res' = res
  /\ UNCHANGED <<pc, exit_code, outcome, create_resp, pod_id, max_attempts, attempt,
                 pod_info, ssh_host, ssh_port, ssh_host_alias, ssh_config,
                 known_hosts, scan, out, steps, fetches, creates, launches,
                 had_error, scen, ssh_config0, known_hosts0, cmds,
                 interrupted_at>>

ListNetworkVolumes ==
  \E b \in Bodies(VolumeLists) :
    RunScript("list_network_volumes", b, list_network_volumes(b))

ListSshKeys ==
  \E b \in Bodies(PubKeys) : RunScript("list_ssh_keys", b, list_ssh_keys(b))

NextInventory ==
  \/ ListNetworkVolumes
  \/ ListSshKeys

SpecInventory == InitInventory /\ [][NextInventory]_vars

(***************************************************************************)
(* The provisioning request alone: the input create_pod builds from the    *)
(* configuration of the PodManager.                                        *)
(***************************************************************************)
\* the configuration __init__ sets, but for the time stamp of the pod name
\* and the public key read from ~/.ssh/id_rsa.pub
DefaultConfig ==
  [gpu_type_id |-> "NVIDIA A100 80GB PCIe",
   gpu_count |-> 1,
   pod_name |-> "a100-pcie-pod-20250101-120000",
   container_disk_gb |-> 20,
   volume_gb |-> 0,
   network_volume_id |-> "v8du7ep4yk",
   datacenter_id |-> "CA-MTL-3",
   template_id |-> "runpod-torch-v240",
   min_vcpu |-> 8,
   min_memory_gb |-> 100,
   ports |-> "22/tcp,8888/http",
   volume_mount_path |-> "/workspace",
   ssh_public_key |-> ""]

\* the public key of the caller: "" when the file is missing or empty
PublicKeys == {"", "ssh-rsa AAAAB3Nza user@host"}

\* configurations: the fields are attributes of the object, which a caller
\* may set before run()
Configs ==
  {[DefaultConfig EXCEPT !.ssh_public_key = k, !.pod_name = n, !.gpu_count = g,
                         !.container_disk_gb = d, !.network_volume_id = v] :
     k \in PublicKeys,
     n \in {"a100-pcie-pod-20250101-120000", "a100-pcie-pod-20251231-235959"},
     g \in {1, 2},
     d \in {20, 50},
     v \in {"v8du7ep4yk", "other-volume"}}

\* an environment list that has the PUBLIC_KEY entry whatever the key is
env_vars_always(key) == <<[key |-> "PUBLIC_KEY", value |-> key]>>

\* create_pod: env_vars
env_vars(key) ==
  IF key # "" THEN <<[key |-> "PUBLIC_KEY", value |-> key]>> ELSE <<>>

\* create_pod: variables["input"]
create_input(cfg) ==
  [cloudType |-> "SECURE",
   gpuCount |-> cfg.gpu_count,
   volumeInGb |-> cfg.volume_gb,
   containerDiskInGb |-> cfg.container_disk_gb,
   minVcpuCount |-> cfg.min_vcpu,
   minMemoryInGb |-> cfg.min_memory_gb,
   gpuTypeId |-> cfg.gpu_type_id,
   name |-> cfg.pod_name,
   dataCenterId |-> cfg.datacenter_id,
   templateId |-> cfg.template_id,
   ports |-> cfg.ports,
   volumeMountPath |-> cfg.volume_mount_path,
   networkVolumeId |-> cfg.network_volume_id,
   supportPublicIp |-> TRUE,
   env |-> env_vars(cfg.ssh_public_key)]

InitProvision == InitAt("provision")

\* create_pod up to the request: the input is built from the configuration
BuildCreateInput ==
  /\ pc = "provision"
  /\ calls < MaxCalls
  /\ calls' = calls + 1
  /\ \E cfg \in Configs :
       /\ unit_arg' = cfg
       /\ unit_res' = create_input(cfg)
  /\ UNCHANGED <<pc, exit_code, outcome, create_resp, pod_id, max_attempts, attempt,
                 pod_info, ssh_host, ssh_port, ssh_host_alias, ssh_config,
                 known_hosts, scan, out, steps, fetches, creates, launches,
                 had_error, scen, ssh_config0, known_hosts0, cmds,
                 interrupted_at>>

NextProvision == BuildCreateInput

SpecProvision == InitProvision /\ [][NextProvision]_vars

(***************************************************************************)
(* The registrar alone: update_ssh_config called again and again, as by    *)
(* successive runs of the launcher for different pods.                     *)
(***************************************************************************)
InitRegistrar == InitAt("registrar")

CallUpdateSshConfig ==
  /\ pc = "registrar"
  /\ calls < MaxCalls
  /\ calls' = calls + 1
  /\ \E pod \in PodIds, host \in Hosts, port \in PortStrings :
       /\ pod_id' = pod
       /\ ssh_host' = host
       /\ ssh_port' = port
       /\ ssh_config' = update_ssh_config(ssh_config, pod, host, port)
       /\ ssh_host_alias' = ssh_alias(pod)
  /\ UNCHANGED <<pc, exit_code, outcome, create_resp, max_attempts, attempt, pod_info,
                 known_hosts, scan, out, steps, fetches, creates, launches,
                 had_error, scen, ssh_config0, known_hosts0, cmds, unit_arg,
                 unit_res, interrupted_at>>

NextRegistrar == CallUpdateSshConfig

SpecRegistrar == InitRegistrar /\ [][NextRegistrar]_vars

(***************************************************************************)
(* Properties of the readiness poller.                                     *)
(***************************************************************************)
\* the positions of the two polling loops
PollSteps == {"wait_for_pod_running", "get_ssh_details"}

\* a step that is one attempt of a polling loop (the other steps from
\* there are the timeout and the operator's interrupt)
PollAttempt ==
  /\ pc \in PollSteps
  /\ vars' # vars
  /\ outcome' \notin {"timeout_start", "timeout_ssh", "interrupted"}

\* the attempt budget of the loop at position p
Budget(p) == IF p = "wait_for_pod_running" THEN max_attempts ELSE SshMaxAttempts

\* C1: a polling loop whose predicate never succeeds ends the process with
\* exit code 1 after exactly the configured number of get_pod_info calls:
\* max_attempts of them in wait_for_pod_running, 40 in get_ssh_details,
\* whatever mix of not-ready responses and exceptions the attempts saw; and
\* while a loop has made fewer calls than that it has not timed out.
C1_TimeoutAfterExactlyN ==
  /\ outcome = "timeout_start" =>
       /\ fetches = max_attempts
       /\ max_attempts >= 1
       /\ exit_code = 1
       /\ pc = "exited"
  /\ outcome = "timeout_ssh" =>
       /\ fetches = SshMaxAttempts
       /\ exit_code = 1
       /\ pc = "exited"
  /\ pc = "wait_for_pod_running" => fetches = attempt - 1 /\ fetches <= max_attempts
  /\ (pc = "get_ssh_details" /\ attempt > 1) =>
       fetches = attempt - 1 /\ fetches <= SshMaxAttempts

\* witness of C1: wait_for_pod_running timed out with a bound above 1 after
\* attempts that saw both exceptions and not-ready responses
C1_Witness ==
  /\ outcome = "timeout_start"
  /\ max_attempts > 1
  /\ had_error
  /\ pod_info.kind = "ret"

\* the poll result carries a pod record with a non-empty runtime record
NonEmptyRuntime(r) ==
  /\ r.kind = "ret"
  /\ r.val.t = "obj"
  /\ r.val.runtime.t = "obj"
  /\ \/ r.val.runtime.uptimeInSeconds.t # "absent"
     \/ r.val.runtime.ports.t # "absent"

\* C3: an attempt of wait_for_pod_running returns ready exactly when its
\* poll response has a non-empty runtime record (a missing, null or empty
\* runtime goes on to the next attempt), and once it has returned the
\* workflow never goes back to that loop, so no further fetch is made in it.
C3_PhaseAReadyAtFirstRuntime ==
  [][/\ (PollAttempt /\ pc = "wait_for_pod_running") =>
          /\ NonEmptyRuntime(pod_info') <=> pc' = "get_ssh_details"
          /\ ~NonEmptyRuntime(pod_info') <=>
               (pc' = "wait_for_pod_running" /\ attempt' = attempt + 1)
     /\ pc' = "wait_for_pod_running" => pc \in {"create_pod", "wait_for_pod_running"}
    ]_vars

\* witness of C3: wait_for_pod_running returned at its third attempt
C3_Witness ==
  /\ pc = "get_ssh_details"
  /\ attempt = 1
  /\ fetches = 3
  /\ NonEmptyRuntime(pod_info)

\* C4: an exception raised by get_pod_info in either polling loop does not
\* end the process or the loop: it uses up one attempt, like a not-ready
\* response, and the loop goes on; no loop makes more attempts than its
\* budget, and a ready response that follows an exception makes the loop
\* return successfully.
C4_PollErrorsAreTransient ==
  [][PollAttempt =>
       /\ pod_info'.kind = "raise" =>
            /\ pc' = pc
            /\ attempt' = attempt + 1
            /\ exit_code' = -1
       /\ attempt <= Budget(pc)
       /\ (had_error /\ pc = "wait_for_pod_running" /\ NonEmptyRuntime(pod_info')) =>
            pc' = "get_ssh_details"
       /\ (attempt > 1 /\ had_error /\ pc = "get_ssh_details"
             /\ ssh_check(pod_info').res = "ready") =>
            pc' = "add_to_known_hosts"
    ]_vars

\* witness of C4: get_ssh_details returned successfully after an attempt of
\* it had raised
C4_Witness ==
  /\ pc = "add_to_known_hosts"
  /\ had_error
  /\ fetches > 1

\* the poll result carries a port mapping with private port 22 that has
\* both a host and a public port
HasCompleteSshPort(r) ==
  /\ r.kind = "ret"
  /\ r.val.t = "obj"
  /\ r.val.runtime.t = "obj"
  /\ r.val.runtime.ports.t = "list"
  /\ \E i \in 1..Len(r.val.runtime.ports.v) :
       LET e == r.val.runtime.ports.v[i]
       IN /\ e.privatePort = Num(SshPrivatePort)
          /\ e.ip.t = "str" /\ e.ip.v # ""
          /\ e.publicPort.t = "int"

\* C2: get_ssh_details returns on a poll response exactly when the response
\* has a port mapping with private port 22 that carries both a host and a
\* public port; on every other response the attempt is not-ready and the
\* loop goes on.
C2_PhaseBReadyIffCompleteSshPort ==
  /\ pc = "add_to_known_hosts" => HasCompleteSshPort(pod_info)
  /\ (pc = "get_ssh_details" /\ attempt > 1) => ~HasCompleteSshPort(pod_info)

(***************************************************************************)
(* Properties of the workflow.                                             *)
(***************************************************************************)
\* the positions in a file's text where a Host line starts
HostLines(f) ==
  {i \in 1..Len(f) : f[i] = "Host " /\ (i = 1 \/ f[i - 1] = "\n")}

\* the Host line at position i is "Host runpod-<pod>"
IsRunpodHost(f, i, pod) ==
  /\ i + 3 <= Len(f)
  /\ f[i + 1] = "runpod-"
  /\ f[i + 2] = pod
  /\ f[i + 3] = "\n"

\* text g is text f with exactly one Host block added at its end, and that
\* block is aliased runpod-<pod>
OneBlockAdded(f, g, pod) ==
  /\ Len(g) > Len(f)
  /\ SubSeq(g, 1, Len(f)) = f
  /\ \E i \in HostLines(g) :
       /\ i > Len(f)
       /\ IsRunpodHost(g, i, pod)
       /\ HostLines(g) = HostLines(f) \cup {i}

\* C5: in a run where creation returned pod id P with a cost, the status
\* polls returned no runtime k times (k below the bound of
\* wait_for_pod_running) and from then on a runtime with the one port
\* mapping {privatePort 22, publicPort Q, ip H}, no polling loop times out,
\* get_ssh_details returns at its first attempt with host H and port Q as a
\* string, and once update_ssh_config has returned the SSH config is its
\* content at the start plus exactly one Host block, aliased runpod-P; a run
\* that ends without an interrupt or file error ends successfully.
C5_EndToEnd ==
  scen.st = "good" =>
    /\ outcome \notin {"timeout_start", "timeout_ssh", "create_failed"}
    /\ pc # "wait_for_pod_running"
    /\ pc = "get_ssh_details" => attempt = 1
    /\ ssh_host # "" =>
         /\ ssh_host = scen.e.ip.v
         /\ ssh_port = ToString(scen.e.publicPort.v)
    /\ ssh_host_alias # <<>> => OneBlockAdded(ssh_config0, ssh_config, pod_id)
    /\ ssh_host_alias = <<>> => ssh_config = ssh_config0
    /\ outcome = "success" => ssh_host_alias # <<>>

\* witness of C5: the instance of the specification, run to the end
C5_Witness ==
  /\ scen.st = "good"
  /\ outcome = "success"
  /\ pod_id = "abc123"
  /\ ssh_host = "1.2.3.4"
  /\ ssh_port = "40222"
  /\ ssh_config0 # <<>>
  /\ OneBlockAdded(ssh_config0, ssh_config, "abc123")

\* the create response is one the provisioner must fail on: a transport
\* error, a remote error, no expected data, or a pod record without cost
ProvisioningFails(h) ==
  \/ h.status # 200
  \/ h.errors.t # "absent"
  \/ h.data.t \in {"absent", "null"}
  \/ h.data.podFindAndDeployOnDemand.t \in {"absent", "null"}
  \/ h.data.podFindAndDeployOnDemand.costPerHr.t \in {"absent", "null"}

\* C6: when the create mutation raises a transport or remote error, returns
\* a response without the expected data, or returns a pod record without an
\* hourly cost, create_pod reports the failure and the process ends with
\* exit code 1 having called no later step: no status poll was made and
\* neither the known-hosts file nor the SSH config was appended to.
C6_ProvisioningFailureIsFatal ==
  (creates > 0 /\ ProvisioningFails(create_resp)) =>
    /\ pc = "exited"
    /\ exit_code = 1
    /\ Msg("create_failed", <<>>) \in out
    /\ steps = <<"create_pod">>
    /\ fetches = 0
    /\ pod_info = NoCall
    /\ known_hosts = known_hosts0
    /\ ssh_config = ssh_config0
    /\ launches = 0

\* witness of C6: the response had a pod id but no hourly cost
C6_Witness ==
  /\ creates = 1
  /\ create_resp.status = 200
  /\ create_resp.errors.t = "absent"
  /\ create_resp.data.t = "obj"
  /\ create_resp.data.podFindAndDeployOnDemand.t = "obj"
  /\ create_resp.data.podFindAndDeployOnDemand.id = Txt("abc123")
  /\ create_resp.data.podFindAndDeployOnDemand.costPerHr = Absent
  /\ exit_code = 1

\* the key scan did not succeed: the tool raised, exited with a non-zero
\* status, or printed nothing
ScanFailed(result) ==
  \/ result.kind = "raise"
  \/ result.returncode # 0
  \/ result.stdout = ""

\* C7: a failed host-key scan (the tool raising or timing out, a non-zero
\* exit status, or empty output) is not fatal: add_to_known_hosts returns,
\* the known-hosts file is left as it was and the workflow is at
\* update_ssh_config; the known-hosts file changes only in
\* add_to_known_hosts, only after a scan with exit status 0 and non-empty
\* output, and then by appending that output verbatim.
C7_ScanFailureIsNotFatal ==
  [][/\ (pc = "add_to_known_hosts" /\ scan' # NoScan /\ ScanFailed(scan')) =>
          /\ pc' = "update_ssh_config"
          /\ exit_code' = -1
          /\ known_hosts' = known_hosts
     /\ known_hosts' # known_hosts =>
          /\ pc = "add_to_known_hosts"
          /\ scan'.kind = "ret"
          /\ scan'.returncode = 0
          /\ scan'.stdout # ""
          /\ known_hosts' = known_hosts \o <<scan'.stdout>>
    ]_vars

\* witness of C7: the scan exited with status 1 (having printed a key), the
\* known-hosts file is unchanged and the SSH config entry has been appended
C7_Witness ==
  /\ pc = "test_ssh_connection"
  /\ scan = Scan(1, KeyLine)
  /\ known_hosts = known_hosts0
  /\ OneBlockAdded(ssh_config0, ssh_config, pod_id)

\* the order in which run() calls the steps
StepOrder ==
  <<"create_pod", "wait_for_pod_running", "get_ssh_details", "add_to_known_hosts",
    "update_ssh_config", "test_ssh_connection", "launch_vscode", "print_summary">>

\* C8: once update_ssh_config has returned, no outcome of the connectivity
\* test (return code 0, non-zero return code, timeout or other exception)
\* and no failure to spawn the editor ends the workflow early: unless the
\* operator interrupts it, the run goes on through the test, one editor
\* launch after it and the summary, which shows the alias, the host and the
\* port, and the process ends with exit code 0.
C8_BestEffortStepsNeverAbort ==
  (ssh_host_alias # <<>> /\ outcome # "interrupted") =>
    /\ outcome \in {"running", "success"}
    /\ pc \in {"test_ssh_connection", "launch_vscode", "print_summary", "exited"}
    /\ pc \in {"print_summary", "exited"} =>
         /\ launches = 1
         /\ SubSeq(steps, 6, 7) = <<"test_ssh_connection", "launch_vscode">>
         /\ \/ Msg("ssh_test_passed", <<>>) \in out
            \/ Msg("ssh_test_failed", <<>>) \in out
    /\ pc = "exited" =>
         /\ exit_code = 0
         /\ steps = StepOrder
         /\ summary(pod_id, <<"runpod-", pod_id>>, ssh_host, ssh_port) \in out

\* witness of C8: the connectivity test failed, the editor could not be
\* spawned, and the process ended with exit code 0
C8_Witness ==
  /\ pc = "exited"
  /\ exit_code = 0
  /\ Msg("ssh_test_failed", <<>>) \in out
  /\ Msg("vscode_failed", ssh_host_alias) \in out

\* C9: run() calls the steps in the order provision, wait_for_pod_running,
\* get_ssh_details, add_to_known_hosts, update_ssh_config,
\* test_ssh_connection, launch_vscode, print_summary, each at most once and
\* none before the one before it was called; the known-hosts file, the SSH
\* config and the editor are touched only by their own step, at most once;
\* and a run in which provisioning failed or a polling loop timed out has
\* ended without an append to either file and without an editor launch.
C9_StepsInOrder ==
  /\ Len(steps) <= Len(StepOrder)
  /\ steps = SubSeq(StepOrder, 1, Len(steps))
  /\ creates <= 1
  /\ launches <= 1
  /\ known_hosts # known_hosts0 =>
       /\ Len(steps) >= 4
       /\ Len(known_hosts) = Len(known_hosts0) + 1
  /\ ssh_config # ssh_config0 =>
       /\ Len(steps) >= 5
       /\ OneBlockAdded(ssh_config0, ssh_config, pod_id)
  /\ launches = 1 => Len(steps) >= 7
  /\ (\E m \in {"create_failed", "timeout_start", "timeout_ssh"} : Msg(m, <<>>) \in out) =>
       /\ pc = "exited"
       /\ exit_code = 1
       /\ known_hosts = known_hosts0
       /\ ssh_config = ssh_config0
       /\ launches = 0

\* witness of C9: a run that called every step, appended to both files and
\* launched the editor
C9_Witness ==
  /\ steps = StepOrder
  /\ known_hosts # known_hosts0
  /\ ssh_config # ssh_config0
  /\ launches = 1

(***************************************************************************)
(* Properties of the registrar.                                            *)
(***************************************************************************)
\* C10: every update_ssh_config call leaves the content the SSH config had
\* before the call as a prefix of its content after the call and adds to it
\* exactly one Host block, aliased runpod-<pod id of the call>; so the
\* blocks of earlier pods stay as they were.
C10_UpdateSshConfigIsPureAppend ==
  [][ssh_config' # ssh_config =>
       /\ calls' = calls + 1
       /\ OneBlockAdded(ssh_config, ssh_config', pod_id')
       /\ \A i \in HostLines(ssh_config) : \A p \in PodIds :
            IsRunpodHost(ssh_config, i, p) => IsRunpodHost(ssh_config', i, p)
    ]_vars

\* witness of C10: two calls for two different pods on a config that had a
\* block before: both blocks are there, in call order, after that block
C10_Witness ==
  /\ calls = 2
  /\ ssh_config0 = OtherBlock
  /\ SubSeq(ssh_config, 1, Len(OtherBlock)) = OtherBlock
  /\ \E i, j \in HostLines(ssh_config) :
       /\ i < j
       /\ IsRunpodHost(ssh_config, i, "abc123")
       /\ IsRunpodHost(ssh_config, j, "xyz789")

Completed ==
  /\ steps = StepOrder
  /\ summary(pod_id, ssh_host_alias, ssh_host, ssh_port) \in out

\* the fatal conditions: missing credential file, provisioning failure, a
\* polling timeout, operator interrupt
FatalCondition ==
  \/ outcome \in {"no_api_key", "create_failed", "timeout_start", "timeout_ssh"}
  \/ interrupted_at # "none"

\* C12: a process that has ended has exit code 0 exactly when the full
\* workflow completed, and exit code 1 after every fatal condition (missing
\* credential file, provisioning failure, Phase A or Phase B timeout,
\* operator interrupt).
C12_ExitCodeContract ==
  pc = "exited" =>
    /\ exit_code = 0 <=> Completed
    /\ FatalCondition => exit_code = 1

(***************************************************************************)
(* The pod id is reported.                                                 *)
(***************************************************************************)
\* the create mutation returned a pod id to create_pod: graphql_request
\* returned the body and its podFindAndDeployOnDemand has an id
ReturnedId ==
  /\ creates = 1
  /\ graphql_request(create_resp).kind = "ret"
  /\ create_resp.data.t = "obj"
  /\ create_resp.data.podFindAndDeployOnDemand.t = "obj"
  /\ create_resp.data.podFindAndDeployOnDemand.id.t = "str"

\* C13: in every run in which the create mutation returned a pod id, that id
\* has been printed from the moment create_pod ended on, so it has been
\* printed when the process ends, whatever ends it: the absent hourly cost,
\* a polling timeout, a failing registration step, an interrupt or the
\* summary.
C13_PodIdReported ==
  ReturnedId =>
    Msg("pod_id", <<create_resp.data.podFindAndDeployOnDemand.id.v>>) \in out

\* witness of C13: the pod was created without an hourly cost, create_pod
\* ended the process, and the id is in the output
C13_Witness ==
  /\ ReturnedId
  /\ pc = "exited"
  /\ outcome = "create_failed"
  /\ create_resp.data.podFindAndDeployOnDemand.costPerHr.t = "null"
  /\ Msg("pod_id", <<"abc123">>) \in out

(***************************************************************************)
(* The API client.                                                         *)
(***************************************************************************)
\* an HTTP status of success
HttpSuccess(st) == st \in 200..299

\* C14: after every graphql_request call: if it returned, the status was a
\* success status, the body had no errors field, and what it returned is
\* that body; if the body had an errors field it raised, and the exception
\* carries that errors payload; if the status was not a success status it
\* raised the HTTP error; and it posted exactly once.
C14_ClientContract ==
  calls > 0 =>
    LET h == unit_arg
        got == unit_res.got
    IN /\ got.kind \in {"ret", "raise"}
       /\ got.kind = "ret" =>
            /\ HttpSuccess(h.status)
            /\ h.errors.t = "absent"
            /\ got.val = h
       /\ h.errors.t # "absent" =>
            /\ got.kind = "raise"
            /\ \/ got.val.what = "GraphQL errors" /\ got.val.payload = h.errors
               \/ got.val.what = "HTTP" /\ got.val.payload.errors = h.errors
       /\ ~HttpSuccess(h.status) =>
            /\ got.kind = "raise"
            /\ got.val.what = "HTTP"
       /\ unit_res.posts = 1

\* witness of C14: a 200 response with an errors field next to a data
\* object: the call raised the GraphQL error with that payload
C14_Witness ==
  /\ calls > 0
  /\ unit_arg.status = 200
  /\ unit_arg.errors = ErrorList
  /\ unit_arg.data.t = "obj"
  /\ unit_res.got = RaiseOf("GraphQL errors", ErrorList)
  /\ unit_res.posts = 1

(***************************************************************************)
(* The inventory scripts.                                                  *)
(***************************************************************************)
\* a well-formed body: no errors payload, and data.myself is an object
\* with the listing in it
WellFormed(b) ==
  /\ b.errors.t = "absent"
  /\ b.data.t = "obj"
  /\ b.data.myself.t = "obj"
  /\ b.data.myself.field.t # "absent"

\* an error or malformed body: an errors payload, or data or myself missing
\* or null
Malformed(b) ==
  \/ b.errors.t # "absent"
  \/ b.data.t \in {"absent", "null"}
  \/ b.data.myself.t \in {"absent", "null"}

\* what a run of a script printed
Printed(what) == unit_res.kind = "ret" /\ unit_res.val = what

\* C15: after every run of an inventory script on a decoded body: a
\* well-formed body with an empty listing (no volume, no registered key)
\* gave the empty-result message, a well-formed body with a listing gave the
\* listing, and an error or malformed body (errors payload, data or myself
\* missing or null) gave the error report with the raw response, so neither
\* the empty-result message nor an unhandled exception.
C15_EmptyAndErrorDistinct ==
  calls > 0 =>
    LET b == unit_arg.body
    IN /\ WellFormed(b) /\ ~Truthy(b.data.myself.field) => Printed("empty")
       /\ WellFormed(b) /\ Truthy(b.data.myself.field) => Printed("listing")
       /\ Malformed(b) => Printed("error_report")

(***************************************************************************)
(* One pod, one address.                                                   *)
(***************************************************************************)
\* the pod id the provisioning returned
ProvisionedId == create_resp.data.podFindAndDeployOnDemand.id.v

\* what this run appended to the SSH config
AddedConfig == SubSeq(ssh_config, Len(ssh_config0) + 1, Len(ssh_config))

\* the fragments that follow the fragment key in text f, n of them
After(f, key, n) ==
  LET i == CHOOSE k \in 1..Len(f) : f[k] = key
  IN SubSeq(f, i + 1, i + n)

\* in the state: every pod query, command, config line and summary line so
\* far names the provisioned pod and the address held in ssh_host, ssh_port
SameIdentity ==
  /\ \A m \in cmds :
       /\ m.msg = "pod_query" => m.args = <<ProvisionedId>>
       /\ m.msg = "ssh-keyscan" => m.args = <<"-p", ssh_port, "-H", ssh_host>>
       /\ m.msg = "ssh" => SubSeq(m.args, 3, 6) = <<"-p", ssh_port, "root@", ssh_host>>
       /\ m.msg = "code" =>
            m.args = <<"--remote", "ssh-remote+", "runpod-", ProvisionedId, "/workspace">>
  /\ ssh_config # ssh_config0 =>
       /\ SubSeq(ssh_config, 1, Len(ssh_config0)) = ssh_config0
       /\ After(AddedConfig, "Host ", 3) = <<"runpod-", ProvisionedId, "\n">>
       /\ After(AddedConfig, "    HostName ", 2) = <<ssh_host, "\n">>
       /\ After(AddedConfig, "    Port ", 2) = <<ssh_port, "\n">>
  /\ \A m \in out :
       m.msg \in {"vscode_launched", "vscode_failed"} => m.args = <<"runpod-", ProvisionedId>>
  /\ \A m \in out :
       m.msg = "summary" =>
         m.args = <<ProvisionedId, "runpod-", ProvisionedId, ssh_host, ssh_port>>

\* C16: one run uses one pod id and one address: every status fetch of both
\* polling phases queries the id the provisioning returned; the alias in
\* the SSH config, in the editor launch and in the summary is runpod-<that
\* id>; the host and port in the SSH config, the key scan, the connectivity
\* test and the summary are the pair get_ssh_details returned, which is set
\* when it returns and never changes after.
C16_SameIdentityEverywhere ==
  [][/\ SameIdentity'
     /\ (pc = "get_ssh_details" /\ pc' = "add_to_known_hosts") =>
          LET c == ssh_check(pod_info')
          IN c.res = "ready" /\ ssh_host' = c.host /\ ssh_port' = c.port
     /\ ~(pc = "get_ssh_details" /\ pc' = "add_to_known_hosts") =>
          UNCHANGED <<ssh_host, ssh_port>>
     /\ pc # "create_pod" => UNCHANGED <<create_resp, pod_id>>
    ]_vars

\* witness of C16: a completed run for pod xyz789 at 5.6.7.8 port 22: the
\* pod was polled, scanned, tested, registered and opened in the editor
C16_Witness ==
  /\ outcome = "success"
  /\ ProvisionedId = "xyz789"
  /\ ssh_host = "5.6.7.8"
  /\ pod_query("xyz789") \in cmds
  /\ keyscan_cmd("5.6.7.8", ssh_port) \in cmds
  /\ ssh_cmd("5.6.7.8", ssh_port) \in cmds
  /\ code_cmd(<<"runpod-", "xyz789">>) \in cmds
  /\ ssh_config # ssh_config0

(***************************************************************************)
(* The provisioning request.                                               *)
(***************************************************************************)
\* the input holds every configured field with its configured value
FieldsUnchanged(cfg, input) ==
  /\ input.gpuTypeId = cfg.gpu_type_id
  /\ input.gpuCount = cfg.gpu_count
  /\ input.containerDiskInGb = cfg.container_disk_gb
  /\ input.volumeInGb = cfg.volume_gb
  /\ input.minVcpuCount = cfg.min_vcpu
  /\ input.minMemoryInGb = cfg.min_memory_gb
  /\ input.name = cfg.pod_name
  /\ input.dataCenterId = cfg.datacenter_id
  /\ input.templateId = cfg.template_id
  /\ input.ports = cfg.ports
  /\ input.volumeMountPath = cfg.volume_mount_path
  /\ input.networkVolumeId = cfg.network_volume_id
  /\ input.cloudType = "SECURE"
  /\ input.supportPublicIp = TRUE

\* the environment list has an entry PUBLIC_KEY whose value is key
CarriesPublicKey(env, key) ==
  \E i \in DOMAIN env : env[i] = [key |-> "PUBLIC_KEY", value |-> key]

C18_TerminatesWithinBudget ==
  /\ [][/\ creates' <= 1
        /\ PollAttempt =>
             /\ fetches' <= Budget(pc)
             /\ attempt = 1 => \A i \in DOMAIN steps : steps[i] # pc
        /\ ~PollAttempt =>
             /\ fetches' \in {fetches, 0}
             /\ \A m \in cmds' \ cmds : m.msg # "pod_query"
       ]_vars
  /\ <>(pc = "exited")

\* witness of C18: a run that made its one provisioning call, left
\* wait_for_pod_running, made the 40 fetches of get_ssh_details and ended
\* on its timeout
C18_Witness ==
  /\ outcome = "timeout_ssh"
  /\ pc = "exited"
  /\ fetches = SshMaxAttempts
  /\ creates = 1
  /\ steps = <<"create_pod", "wait_for_pod_running", "get_ssh_details">>

(***************************************************************************)
(* The address get_ssh_details returns.                                    *)
(***************************************************************************)
\* the mapping at position i of ports is one of private port 22
IsSshEntry(ports, i) ==
  ports[i].privatePort.t = "int" /\ ports[i].privatePort.v = 22

\* the position of the first mapping of private port 22
FirstSshIndex(ports) ==
  CHOOSE i \in 1..Len(ports) :
    IsSshEntry(ports, i) /\ \A j \in 1..(i - 1) : ~IsSshEntry(ports, j)

\* C19: when get_ssh_details returns, the response of that attempt has a
\* mapping of private port 22, and the pair returned is taken from the
\* first such mapping in list order: the host is its ip and the port is its
\* public port as a string (in the cases of C2, where that mapping has no
\* public port, the port is "None" or the default "22").  So the pair never
\* joins the host of one mapping with the public port of another, never
\* comes from a mapping of another private port, and never from the
\* response of an earlier attempt.
C19_PairFromFirstSshEntry ==
  [][(pc = "get_ssh_details" /\ pc' = "add_to_known_hosts") =>
       /\ pod_info'.kind = "ret"
       /\ LET ports == pod_info'.val.runtime.ports.v
          IN /\ \E i \in 1..Len(ports) : IsSshEntry(ports, i)
             /\ LET e == ports[FirstSshIndex(ports)]
                IN /\ e.ip.t = "str"
                   /\ ssh_host' = e.ip.v
                   /\ e.publicPort.t = "int" => ssh_port' = ToString(e.publicPort.v)
                   /\ e.publicPort.t # "int" => ssh_port' \in {"None", "22"}
    ]_vars

\* witness of C19: get_ssh_details returned at a later attempt on a
\* response with two mappings of private port 22, with the address of the
\* first of them
C19_Witness ==
  /\ pc = "add_to_known_hosts"
  /\ attempt > 1
  /\ pod_info.kind = "ret"
  /\ pod_info.val.runtime.ports.v =
       <<Port(Num(22), Num(40333), Txt("5.6.7.8")), Port(Num(22), Num(40222), Txt("1.2.3.4"))>>
  /\ ssh_host = "5.6.7.8"
  /\ ssh_port = "40333"

====
